---- MODULE Spec2Model ----
(***************************************************************************)
(* Model of the Bitcoin price endpoints of main.py:                        *)
(*   GET /bitcoin/all              get_bitcoin_all_sources (+ fetch_source) *)
(*   GET /bitcoin/source/{source}  get_bitcoin_from_source                  *)
(* One request is in progress at a time.  The asyncio units of             *)
(* /bitcoin/all advance between their await points (client.get,            *)
(* asyncio.sleep); the single-source handler is synchronous (requests.get).*)
(***************************************************************************)
EXTENDS Integers, Sequences, FiniteSets, TLC

VARIABLES apiKey, call, target, apc, pc, resps, sent, ret, results, response, faults,
          payload, paths, now, started, late, weather, window, worker

vars == <<apiKey, call, target, apc, pc, resps, sent, ret, results, response, faults,
          payload, paths, now, started, late, weather, window, worker>>

(***************************************************************************)
(* Bounds of the model                                                     *)
(***************************************************************************)
\* number of upstream answers other than a good 200 within one request
MaxFaults == 2

(***************************************************************************)
(* Registry and program constants                                          *)
(***************************************************************************)
\* CRYPTO_APIS, in configuration order
CRYPTO_APIS == <<"coinbase", "blockchain", "coinmarketcap", "binance", "kraken", "nobitex">>

Sources == {CRYPTO_APIS[i] : i \in 1..Len(CRYPTO_APIS)}

\* an identifier that is not a key of CRYPTO_APIS
UnknownSource == "dogecoin"

\* for attempt in range(2)
RetryRange == 2

(***************************************************************************)
(* Upstream behaviour on one attempt                                       *)
(***************************************************************************)
ErrorStatuses == {404, 503}

UpstreamResponses ==
    {[kind |-> "ok", status |-> 200], [kind |-> "badshape", status |-> 200],
     [kind |-> "timeout", status |-> 0], [kind |-> "neterr", status |-> 0]}
    \cup {[kind |-> "http", status |-> c] : c \in ErrorStatuses}

IsFault(r) == r.kind # "ok"

(***************************************************************************)
(* Python values: a dict (its keys, and the text of its "error" entry) or  *)
(* a bare string                                                           *)
(***************************************************************************)
Dict(keys) == [type |-> "dict", keys |-> keys, text |-> ""]

ErrDict(msg) == [type |-> "dict", keys |-> {"error"}, text |-> msg]

Str(s) == [type |-> "str", keys |-> {}, text |-> s]

EmptyDict == [k \in {} |-> Str("")]

DictSet(d, k, v) == [x \in (DOMAIN d) \cup {k} |-> IF x = k THEN v ELSE d[x]]

\* str(e) of the exception an attempt raised
ExcText(r) ==
    CASE r.kind = "timeout" -> "ReadTimeout"
      [] r.kind = "neterr" -> "ConnectError"
      [] r.kind = "http" -> "HTTPStatusError " \o ToString(r.status)
      [] OTHER -> ""

(***************************************************************************)
(* Decoded JSON payloads.  Every value has the same record shape; an       *)
(* object is its sequence of <<key, value>> members; numbers are held      *)
(* doubled (n2 = 2 * value) so that a midpoint of two prices is exact;     *)
(* a decimal string has s = "#" and the number it spells in n2.            *)
(***************************************************************************)
JNull == [t |-> "null", n2 |-> 0, s |-> "", items |-> <<>>, fields |-> <<>>]

JNum(x) == [t |-> "num", n2 |-> 2 * x, s |-> "", items |-> <<>>, fields |-> <<>>]

JHalves(h) == [t |-> "num", n2 |-> h, s |-> "", items |-> <<>>, fields |-> <<>>]

JNumStr(x) == [t |-> "str", n2 |-> 2 * x, s |-> "#", items |-> <<>>, fields |-> <<>>]

JStr(text) == [t |-> "str", n2 |-> 0, s |-> text, items |-> <<>>, fields |-> <<>>]

JList(items) == [t |-> "list", n2 |-> 0, s |-> "", items |-> items, fields |-> <<>>]

JObj(fields) == [t |-> "obj", n2 |-> 0, s |-> "", items |-> <<>>, fields |-> fields]

HasKey(v, k) == \E i \in 1..Len(v.fields) : v.fields[i][1] = k

Member(v, k) == v.fields[CHOOSE i \in 1..Len(v.fields) : v.fields[i][1] = k][2]

RECURSIVE FirstDigit(_)
FirstDigit(n) == IF n < 10 THEN n ELSE FirstDigit(n \div 10)

(***************************************************************************)
(* Python operations on a decoded payload: each yields a value or raises   *)
(***************************************************************************)
Ok(v) == [exc |-> "", v |-> v]

Raise(name) == [exc |-> name, v |-> JNull]

Raised(x) == x.exc # ""

\* x[k] for a string key
GetKey(x, k) ==
    IF Raised(x) THEN x
    ELSE IF x.v.t = "obj"
         THEN IF HasKey(x.v, k) THEN Ok(Member(x.v, k)) ELSE Raise("KeyError")
         ELSE Raise("TypeError")

\* x[0]
GetFirst(x) ==
    IF Raised(x) THEN x
    ELSE CASE x.v.t = "list" ->
                  IF Len(x.v.items) > 0 THEN Ok(x.v.items[1]) ELSE Raise("IndexError")
           [] x.v.t = "str" ->
                  IF x.v.s = "" THEN Raise("IndexError")
                  ELSE IF x.v.s = "#" THEN Ok(JNumStr(FirstDigit(x.v.n2 \div 2)))
                  ELSE Ok(JStr("a"))
           [] x.v.t = "obj" -> Raise("KeyError")
           [] OTHER -> Raise("TypeError")

\* float(x)
Float(x) ==
    IF Raised(x) THEN x
    ELSE CASE x.v.t = "num" -> Ok(JHalves(x.v.n2))
           [] x.v.t = "str" -> IF x.v.s = "#" THEN Ok(JHalves(x.v.n2)) ELSE Raise("ValueError")
           [] OTHER -> Raise("TypeError")

\* x.get(k, default)
DictGet(x, k, default) ==
    IF Raised(x) THEN x
    ELSE IF x.v.t = "obj"
         THEN IF HasKey(x.v, k) THEN Ok(Member(x.v, k)) ELSE Ok(default)
         ELSE Raise("AttributeError")

\* k in x
Contains(k, x) ==
    IF Raised(x) THEN [exc |-> x.exc, b |-> FALSE]
    ELSE CASE x.v.t = "obj" -> [exc |-> "", b |-> HasKey(x.v, k)]
           [] x.v.t = "list" ->
                  [exc |-> "",
                   b |-> \E i \in 1..Len(x.v.items) :
                             x.v.items[i].t = "str" /\ x.v.items[i].s = k]
           [] x.v.t = "str" -> [exc |-> "", b |-> x.v.s = k]
           [] OTHER -> [exc |-> "TypeError", b |-> FALSE]

\* bool(v)
Truthy(v) ==
    CASE v.t = "null" -> FALSE
      [] v.t = "num" -> v.n2 # 0
      [] v.t = "str" -> v.s # ""
      [] v.t = "list" -> Len(v.items) > 0
      [] OTHER -> Len(v.fields) > 0

(***************************************************************************)
(* parse_crypto_response, by the shape of the decoded payload              *)
(***************************************************************************)
RecordKeys(source) ==
    CASE source = "coinbase" -> {"usd", "eur", "gbp"}
      [] source = "blockchain" -> {"usd", "eur", "gbp"}
      [] source = "coinmarketcap" -> {"usd", "24h_change", "market_cap", "volume_24h"}
      [] source = "binance" -> {"usd"}
      [] source = "kraken" -> {"usd"}
      [] source = "nobitex" -> {"usd", "last_trade_price", "best_bid", "best_ask"}
      [] OTHER -> {}

ParseResult(source, r) ==
    IF r.kind = "ok" THEN Dict(RecordKeys(source))
    ELSE IF source = "kraken" THEN ErrDict("Unexpected Kraken response format")
    ELSE IF source = "nobitex" THEN ErrDict("Invalid Nobitex response")
    ELSE ErrDict("Parse error: KeyError")

(***************************************************************************)
(* parse_crypto_response on a decoded payload, and the normalisation of    *)
(* the single-source handler.  A result dict holds its entries in vals.    *)
(***************************************************************************)
Rec(pairs) ==
    [type |-> "dict", keys |-> {pairs[i][1] : i \in 1..Len(pairs)}, text |-> "",
     vals |-> pairs]

ErrRec(msg) ==
    [type |-> "dict", keys |-> {"error"}, text |-> msg, vals |-> <<>>]

Val(d, k) == d.vals[CHOOSE i \in 1..Len(d.vals) : d.vals[i][1] = k][2]

\* variant: the except clause swallows the exception, result stays {}
ParseError_Swallowed(exc) == Rec(<<>>)

\* the except clause of parse_crypto_response
ParseError(exc) == ErrRec("Parse error: " \o exc)

\* a dict display whose entries are evaluated in order: the first entry that
\* raises ends the evaluation
Build(entries) ==
    LET bad == {i \in 1..Len(entries) : Raised(entries[i][2])}
    IN IF bad = {}
       THEN Rec([i \in 1..Len(entries) |-> <<entries[i][1], entries[i][2].v>>])
       ELSE ParseError(entries[CHOOSE i \in bad : \A j \in bad : i <= j][2].exc)

ParseCoinbase(data) ==
    LET rates == GetKey(GetKey(Ok(data), "data"), "rates")
    IN Build(<< <<"usd", Float(GetKey(rates, "USD"))>>,
                <<"eur", Float(GetKey(rates, "EUR"))>>,
                <<"gbp", Float(GetKey(rates, "GBP"))>> >>)

ParseBlockchain(data) ==
    Build(<< <<"usd", GetKey(GetKey(Ok(data), "USD"), "last")>>,
             <<"eur", GetKey(GetKey(Ok(data), "EUR"), "last")>>,
             <<"gbp", GetKey(GetKey(Ok(data), "GBP"), "last")>> >>)

ParseCoinmarketcap(data) ==
    LET btc_data == GetKey(GetKey(GetKey(GetKey(Ok(data), "data"), "BTC"), "quote"), "USD")
    IN Build(<< <<"usd", GetKey(btc_data, "price")>>,
                <<"24h_change", GetKey(btc_data, "percent_change_24h")>>,
                <<"market_cap", GetKey(btc_data, "market_cap")>>,
                <<"volume_24h", GetKey(btc_data, "volume_24h")>> >>)

ParseBinance(data) == Build(<< <<"usd", Float(GetKey(Ok(data), "price"))>> >>)

\* variant: the pair is read with .get and a default of 0
ParseKraken_DefaultZero(data) ==
    IF data.t = "obj" /\ HasKey(data, "result") /\ Member(data, "result").t = "obj"
          /\ HasKey(Member(data, "result"), "XXBTZUSD")
    THEN Build(<< <<"usd", Float(GetFirst(GetKey(GetKey(GetKey(Ok(data), "result"),
                                                       "XXBTZUSD"), "c")))>> >>)
    ELSE Rec(<< <<"usd", JNum(0)>> >>)

ParseKraken(data) ==
    LET hasResult == Contains("result", Ok(data))
        result == GetKey(Ok(data), "result")
        hasPair == Contains("XXBTZUSD", result)
    IN IF hasResult.exc # "" THEN ParseError(hasResult.exc)
       ELSE IF ~hasResult.b THEN ErrRec("Unexpected Kraken response format")
       ELSE IF hasPair.exc # "" THEN ParseError(hasPair.exc)
       ELSE IF ~hasPair.b THEN ErrRec("Unexpected Kraken response format")
       ELSE Build(<< <<"usd", Float(GetFirst(GetKey(GetKey(result, "XXBTZUSD"), "c")))>> >>)

\* data.get("status") == "ok"
StatusOk(data) ==
    LET status == DictGet(Ok(data), "status", JNull)
    IN [exc |-> status.exc, b |-> ~Raised(status) /\ status.v.t = "str" /\ status.v.s = "ok"]

\* variant: the best price is taken from the last entry of each list, and
\* the midpoint is used whatever the two prices are
OrderBook_LastEntry(data) ==
    LET last_trade_price == Float(DictGet(Ok(data), "lastTradePrice", JNum(0)))
        bids == DictGet(Ok(data), "bids", JList(<<>>))
        asks == DictGet(Ok(data), "asks", JList(<<>>))
        lastOf(l) == IF l.v.t = "list" /\ Len(l.v.items) > 0
                     THEN Ok(l.v.items[Len(l.v.items)]) ELSE GetFirst(l)
        best_bid == IF Truthy(bids.v) THEN Float(GetFirst(lastOf(bids))) ELSE Ok(JNum(0))
        best_ask == IF Truthy(asks.v) THEN Float(GetFirst(lastOf(asks))) ELSE Ok(JNum(0))
        exc == IF Raised(last_trade_price) THEN last_trade_price.exc
               ELSE IF Raised(best_bid) THEN best_bid.exc
               ELSE best_ask.exc
    IN [exc |-> exc,
        last_trade_price |-> last_trade_price.v,
        best_bid |-> best_bid.v,
        best_ask |-> best_ask.v,
        both |-> TRUE,
        mid_price |-> JHalves((best_bid.v.n2 + best_ask.v.n2) \div 2)]

\* the order-book arithmetic shared by both nobitex branches
OrderBook(data) ==
    LET last_trade_price == Float(DictGet(Ok(data), "lastTradePrice", JNum(0)))
        bids == DictGet(Ok(data), "bids", JList(<<>>))
        asks == DictGet(Ok(data), "asks", JList(<<>>))
        best_bid == IF Truthy(bids.v) THEN Float(GetFirst(GetFirst(bids))) ELSE Ok(JNum(0))
        best_ask == IF Truthy(asks.v) THEN Float(GetFirst(GetFirst(asks))) ELSE Ok(JNum(0))
        exc == IF Raised(last_trade_price) THEN last_trade_price.exc
               ELSE IF Raised(best_bid) THEN best_bid.exc
               ELSE best_ask.exc
        both == Truthy(best_bid.v) /\ Truthy(best_ask.v)
    IN [exc |-> exc,
        last_trade_price |-> last_trade_price.v,
        best_bid |-> best_bid.v,
        best_ask |-> best_ask.v,
        both |-> both,
        mid_price |-> IF both THEN JHalves((best_bid.v.n2 + best_ask.v.n2) \div 2)
                      ELSE last_trade_price.v]

\* variant: the status field is not looked at
ParseNobitex_IgnoreStatus(data) ==
    LET book == OrderBook(data)
    IN IF data.t # "obj" THEN ParseError("AttributeError")
       ELSE IF book.exc # "" THEN ParseError(book.exc)
       ELSE Rec(<< <<"usd", book.mid_price>>,
                   <<"last_trade_price", book.last_trade_price>>,
                   <<"best_bid", book.best_bid>>,
                   <<"best_ask", book.best_ask>> >>)

ParseNobitex(data) ==
    LET ok == StatusOk(data)
        book == OrderBook(data)
    IN IF ok.exc # "" THEN ParseError(ok.exc)
       ELSE IF ~ok.b THEN ErrRec("Invalid Nobitex response")
       ELSE IF book.exc # "" THEN ParseError(book.exc)
       ELSE Rec(<< <<"usd", book.mid_price>>,
                   <<"last_trade_price", book.last_trade_price>>,
                   <<"best_bid", book.best_bid>>,
                   <<"best_ask", book.best_ask>> >>)

parse_crypto_response(source, data) ==
    CASE source = "coinbase" -> ParseCoinbase(data)
      [] source = "blockchain" -> ParseBlockchain(data)
      [] source = "coinmarketcap" -> ParseCoinmarketcap(data)
      [] source = "binance" -> ParseBinance(data)
      [] source = "kraken" -> ParseKraken(data)
      [] source = "nobitex" -> ParseNobitex(data)
      [] OTHER -> Rec(<<>>)

(***************************************************************************)
(* fetch_source: one unit of /bitcoin/all                                  *)
(***************************************************************************)
Tuple(source, data) == [tuple |-> TRUE, source |-> source, data |-> data]

NoReturn == [tuple |-> FALSE, source |-> "", data |-> Str("")]

\* the credential check that precedes any request
SkipsForMissingKey(source, key) == source = "coinmarketcap" /\ ~key

\* variant: the first pass of the loop always sleeps and goes round again
FetchSourceStep_RetryAlways(source, attempt, r) ==
    IF source \in {"coinbase", "binance"}
    THEN IF r.status = 200
         THEN [next |-> "return", data |-> ParseResult(source, r)]
         ELSE [next |-> "return", data |-> ErrDict("error: " \o ExcText(r))]
    ELSE IF attempt = 0
         THEN [next |-> "sleep", data |-> Str("")]
         ELSE IF r.status = 200
              THEN [next |-> "return", data |-> ParseResult(source, r)]
              ELSE [next |-> "return", data |-> ErrDict(ExcText(r))]

\* what the unit does with the answer r to its attempt (0 or 1)
FetchSourceStep(source, attempt, r) ==
    IF source = "coinbase"
    THEN IF r.status = 200
         THEN [next |-> "return", data |-> ParseResult(source, r)]
         ELSE [next |-> "return", data |-> ErrDict("Coinbase error: " \o ExcText(r))]
    ELSE IF source = "binance"
    THEN IF r.status = 200
         THEN [next |-> "return", data |-> ParseResult(source, r)]
         ELSE [next |-> "return", data |-> ErrDict("Binance error: " \o ExcText(r))]
    ELSE IF r.status = 200
         THEN [next |-> "return", data |-> ParseResult(source, r)]
         ELSE IF attempt = 0
              THEN [next |-> "sleep", data |-> Str("")]
              ELSE IF r.kind = "http"
                   THEN [next |-> "return", data |-> ErrDict("HTTP " \o ToString(r.status))]
                   ELSE IF r.kind = "timeout"
                        THEN [next |-> "return", data |-> ErrDict("Timeout")]
                        ELSE [next |-> "return", data |-> ErrDict(ExcText(r))]

(***************************************************************************)
(* get_bitcoin_all_sources: collection and report                          *)
(***************************************************************************)
RECURSIVE CollectFrom(_, _, _)
\* for result in completed: ...
CollectFrom(completed, i, acc) ==
    IF i > Len(completed) THEN acc
    ELSE CollectFrom(completed, i + 1,
            IF completed[i].tuple
            THEN DictSet(acc, completed[i].source, completed[i].data)
            ELSE DictSet(acc, "unknown", ErrDict("exception")))

Collect(completed) == CollectFrom(completed, 1, EmptyDict)

\* except asyncio.TimeoutError
OnGlobalTimeout(res) == DictSet(res, "error", Str("Global timeout reached"))

\* variant: no except clause for asyncio.TimeoutError
ResultsAfterWait_Uncaught(timedOut, completed) ==
    IF timedOut
    THEN [raised |-> TRUE, results |-> EmptyDict]
    ELSE [raised |-> FALSE, results |-> Collect(completed)]

\* the try block around wait_for: the results dict it leaves behind, and
\* whether an exception leaves the handler
ResultsAfterWait(timedOut, completed) ==
    IF timedOut
    THEN [raised |-> FALSE, results |-> OnGlobalTimeout(EmptyDict)]
    ELSE [raised |-> FALSE, results |-> Collect(completed)]

Successful(res) ==
    Cardinality({k \in DOMAIN res : res[k].type = "dict" /\ "error" \notin res[k].keys})

Failed(res) ==
    Cardinality({k \in DOMAIN res : res[k].type = "dict" /\ "error" \in res[k].keys})

Report(res) ==
    [kind |-> "report", status |-> 200, bitcoin_prices |-> res,
     successful_sources |-> Successful(res), failed_sources |-> Failed(res)]

NoResponse == [kind |-> "none", status |-> 0]

\* no payload is being normalised, no pair of results is held
NoPayload == [t |-> "none"]

NoPaths == [all |-> NoResponse, single |-> NoResponse]

HTTPException(status, detail) == [kind |-> "exception", status |-> status, detail |-> detail]

\* what the handler hands to the server after the try block
AllSourcesResponse(w) ==
    IF w.raised THEN HTTPException(500, "TimeoutError") ELSE Report(w.results)

(***************************************************************************)
(* get_bitcoin_from_source                                                 *)
(***************************************************************************)
\* f"Invalid source. Available sources: {list(CRYPTO_APIS.keys())}"
InvalidSourceDetail == [text |-> "Invalid source. Available sources: ", sources |-> CRYPTO_APIS]

JSONResponse(content) == [kind |-> "json", status |-> 200, content |-> content]

\* the nobitex branch: one requests.get outside the retry loop
NobitexSingle(r) ==
    IF r.kind = "ok"
    THEN JSONResponse(Dict({"source", "usd", "last_trade_price", "best_bid", "best_ask",
                            "spread", "last_update", "timestamp"}))
    ELSE IF r.kind = "badshape"
    THEN HTTPException(500, "Invalid response from Nobitex")
    ELSE HTTPException(500, "Error fetching from nobitex: " \o ExcText(r))

\* the nobitex branch of the handler on a decoded payload
NobitexInline(data) ==
    LET ok == StatusOk(data)
        book == OrderBook(data)
        last_update == DictGet(Ok(data), "lastUpdate", JNum(0))
    IN IF ok.exc # "" THEN HTTPException(500, "Error fetching from nobitex: " \o ok.exc)
       ELSE IF ~ok.b THEN HTTPException(500, "Invalid response from Nobitex")
       ELSE IF book.exc # "" THEN HTTPException(500, "Error fetching from nobitex: " \o book.exc)
       ELSE JSONResponse(Rec(<< <<"source", JStr("nobitex")>>,
                                <<"usd", book.mid_price>>,
                                <<"last_trade_price", book.last_trade_price>>,
                                <<"best_bid", book.best_bid>>,
                                <<"best_ask", book.best_ask>>,
                                <<"spread", IF book.both
                                            THEN JHalves(book.best_ask.n2 - book.best_bid.n2)
                                            ELSE JNum(0)>>,
                                <<"last_update", last_update.v>>,
                                <<"timestamp", JStr("now")>> >>))

\* result["source"] = ...; result["timestamp"] = ...
WithSourceAndTimestamp(result, source) ==
    [result EXCEPT !.keys = @ \cup {"source", "timestamp"},
                   !.vals = @ \o << <<"source", JStr(source)>>, <<"timestamp", JStr("now")>> >>]

\* what the single-source handler makes of a decoded 200 payload
SingleNormalize(source, data) ==
    IF source = "nobitex" THEN NobitexInline(data)
    ELSE JSONResponse(WithSourceAndTimestamp(parse_crypto_response(source, data), source))

\* one pass of the retry loop with the answer r to the attempt (0 or 1)
SingleSourceStep(source, attempt, r) ==
    IF source = "nobitex"
    THEN [next |-> "return", response |-> NobitexSingle(r)]
    ELSE IF r.status = 200
    THEN LET parsed == ParseResult(source, r)
         IN [next |-> "return",
             response |-> JSONResponse([parsed EXCEPT !.keys = @ \cup {"source", "timestamp"}])]
    ELSE IF attempt = 0
    THEN [next |-> "retry", response |-> NoResponse]
    ELSE IF r.kind = "timeout"
    THEN [next |-> "return", response |-> HTTPException(504, "Timeout while fetching")]
    ELSE [next |-> "return",
          response |-> HTTPException(503, "Network error while fetching: " \o ExcText(r))]

(***************************************************************************)
(* Payloads handed to the normalisation: well-formed bodies of each        *)
(* upstream and reshaped ones (missing keys, wrong nesting, wrong types,   *)
(* empty lists)                                                            *)
(***************************************************************************)
\* a member that may be absent
Opt(k, values) == {<<>>} \cup {<< <<k, v>> >> : v \in values}

One(k, v) == << <<k, v>> >>

NonObjects == {JNull, JList(<<>>), JStr("abc")}

CoinbasePayloads ==
    {JObj(One("data", JObj(One("rates", JObj(usd \o eur \o gbp))))) :
        usd \in Opt("USD", {JNumStr(50000), JStr("abc"), JNull}),
        eur \in Opt("EUR", {JNumStr(46000)}),
        gbp \in Opt("GBP", {JNumStr(40000)})}
    \cup {JObj(<<>>), JObj(One("data", JObj(<<>>))), JObj(One("data", JList(<<>>)))}
    \cup NonObjects

BlockchainPayloads ==
    {JObj(usd \o eur \o gbp) :
        usd \in Opt("USD", {JObj(One("last", JNum(50000))), JObj(One("last", JNull)),
                            JObj(One("last", JStr("abc"))), JObj(<<>>), JNum(5)}),
        eur \in Opt("EUR", {JObj(One("last", JNum(46000)))}),
        gbp \in Opt("GBP", {JObj(One("last", JNum(40000)))})}
    \cup NonObjects

CoinmarketcapPayloads ==
    {JObj(One("data", JObj(One("BTC", JObj(One("quote", JObj(One("USD",
            JObj(price \o change \o cap \o volume))))))))) :
        price \in Opt("price", {JNum(50000), JNull}),
        change \in Opt("percent_change_24h", {JNum(3)}),
        cap \in Opt("market_cap", {JNum(900)}),
        volume \in Opt("volume_24h", {JNum(30)})}
    \cup {JObj(<<>>), JObj(One("data", JObj(<<>>))), JObj(One("status", JObj(<<>>)))}
    \cup NonObjects

BinancePayloads ==
    {JObj(price) : price \in Opt("price", {JNumStr(50000), JNum(50000), JStr("abc"), JNull})}
    \cup NonObjects

KrakenPayloads ==
    {JObj(One("error", JList(<<>>)) \o One("result", JObj(One("XXBTZUSD", JObj(c))))) :
        c \in Opt("c", {JList(<<JNumStr(50000), JNumStr(1)>>), JList(<<>>),
                        JNumStr(50000), JNull})}
    \cup {JObj(One("error", JList(<<JStr("EGeneral")>>))),
          JObj(One("error", JList(<<>>)) \o One("result", JObj(<<>>))),
          JObj(One("result", JObj(One("XETHZUSD",
                  JObj(One("c", JList(<<JNumStr(3000), JNumStr(1)>>))))))),
          JObj(One("result", JList(<<JStr("XXBTZUSD")>>))),
          JObj(One("result", JNull)),
          JObj(<<>>), JList(<<JStr("result")>>), JStr("result"), JNum(7)}
    \cup NonObjects

Level(price) == JList(<<JNumStr(price), JNumStr(1)>>)

NobitexPayloads ==
    {JObj(status \o ltp \o bids \o asks \o One("lastUpdate", JNum(1700))) :
        status \in Opt("status", {JStr("ok"), JStr("failed")}),
        ltp \in Opt("lastTradePrice", {JNumStr(100), JNumStr(0)}),
        bids \in Opt("bids", {JList(<<>>), JList(<<Level(99)>>),
                              JList(<<Level(99), Level(98)>>), JList(<<Level(0)>>),
                              JList(<<JList(<<>>)>>)}),
        asks \in Opt("asks", {JList(<<>>), JList(<<Level(101)>>),
                              JList(<<Level(100), Level(102)>>), JList(<<Level(0)>>)})}
    \cup NonObjects

PayloadsOf(source) ==
    CASE source = "coinbase" -> CoinbasePayloads
      [] source = "blockchain" -> BlockchainPayloads
      [] source = "coinmarketcap" -> CoinmarketcapPayloads
      [] source = "binance" -> BinancePayloads
      [] source = "kraken" -> KrakenPayloads
      [] source = "nobitex" -> NobitexPayloads
      [] OTHER -> {}

(***************************************************************************)
(* State                                                                   *)
(***************************************************************************)
\* OPENWEATHER_API_KEY, the parameters of the weather request in progress
\* and the answer of the upstream to it; read by get_weather only
NoAnswer == [kind |-> "none", status |-> 0]

NoWeather == [key |-> FALSE, city |-> "", units |-> "", answer |-> NoAnswer]

\* nothing has been rendered yet
NoDisplay == [routine |-> "", data |-> ""]

\* MainWindow.__init__: no call type yet, timer stopped; the queue holds the
\* signals of the worker that the event loop has not delivered yet
NewWindow ==
    [current_call |-> "None", sourceCombo |-> "All Sources", refresh_timer |-> FALSE,
     queue |-> <<>>, shown |-> NoDisplay]

\* ApiWorker.__init__: endpoint "", thread not started
NewWorker == [endpoint |-> "", thread |-> "finished", fetching |-> ""]

Init ==
    /\ apiKey \in BOOLEAN
    /\ call = "none"
    /\ target = ""
    /\ apc = "idle"
    /\ pc = [s \in Sources |-> "idle"]
    /\ resps = [s \in Sources |-> <<>>]
    /\ sent = [s \in Sources |-> 0]
    /\ ret = [s \in Sources |-> NoReturn]
    /\ results = EmptyDict
    /\ response = NoResponse
    /\ faults = 0
    /\ payload = NoPayload
    /\ paths = NoPaths
    /\ now = 0
    /\ started = [s \in Sources |-> 0]
    /\ late = FALSE
    /\ weather = NoWeather
    /\ window = NewWindow
    /\ worker = NewWorker

FaultAllowed(r) == IsFault(r) => faults < MaxFaults

(***************************************************************************)
(* GET /bitcoin/all                                                        *)
(***************************************************************************)
\* the handler creates the six units and awaits gather under wait_for;
\* every unit runs up to its first await
CallAll ==
    /\ call = "none"
    /\ call' = "all"
    /\ apc' = "gather"
    /\ pc' = [s \in Sources |-> IF SkipsForMissingKey(s, apiKey) THEN "done" ELSE "wait0"]
    /\ sent' = [s \in Sources |-> IF SkipsForMissingKey(s, apiKey) THEN 0 ELSE 1]
    /\ ret' = [s \in Sources |->
                 IF SkipsForMissingKey(s, apiKey)
                 THEN Tuple(s, ErrDict("API key required but not configured"))
                 ELSE NoReturn]
    /\ UNCHANGED <<apiKey, target, resps, results, response, faults>>
    /\ UNCHANGED <<payload, paths, now, started, late, weather, window, worker>>

\* variant: the units are awaited one after the other in registry order
Respond_InTurn(s, r) ==
    /\ call = "all" /\ apc = "gather"
    /\ pc[s] \in {"wait0", "wait1"}
    /\ \A i, j \in 1..Len(CRYPTO_APIS) :
           (i < j /\ CRYPTO_APIS[j] = s) => pc[CRYPTO_APIS[i]] = "done"
    /\ FaultAllowed(r)
    /\ LET attempt == IF pc[s] = "wait0" THEN 0 ELSE 1
           step == FetchSourceStep(s, attempt, r)
       IN /\ pc' = [pc EXCEPT ![s] = IF step.next = "return" THEN "done" ELSE "sleep"]
          /\ ret' = [ret EXCEPT ![s] = IF step.next = "return" THEN Tuple(s, step.data) ELSE @]
    /\ resps' = [resps EXCEPT ![s] = Append(@, r)]
    /\ faults' = IF IsFault(r) THEN faults + 1 ELSE faults
    /\ UNCHANGED <<apiKey, call, target, apc, sent, results, response>>
    /\ UNCHANGED <<payload, paths, now, started, late, weather, window, worker>>

\* the upstream of source s answers the attempt in flight
Respond(s, r) ==
    /\ call = "all" /\ apc = "gather"
    /\ pc[s] \in {"wait0", "wait1"}
    /\ FaultAllowed(r)
    /\ LET attempt == IF pc[s] = "wait0" THEN 0 ELSE 1
           step == FetchSourceStep(s, attempt, r)
       IN /\ pc' = [pc EXCEPT ![s] = IF step.next = "return" THEN "done" ELSE "sleep"]
          /\ ret' = [ret EXCEPT ![s] = IF step.next = "return" THEN Tuple(s, step.data) ELSE @]
    /\ resps' = [resps EXCEPT ![s] = Append(@, r)]
    /\ faults' = IF IsFault(r) THEN faults + 1 ELSE faults
    /\ UNCHANGED <<apiKey, call, target, apc, sent, results, response>>
    /\ UNCHANGED <<payload, paths, now, started, late, weather, window, worker>>

\* asyncio.sleep(1) is over: the loop continues with the next attempt
Wake(s) ==
    /\ call = "all" /\ apc = "gather"
    /\ pc[s] = "sleep"
    /\ sent[s] < RetryRange
    /\ pc' = [pc EXCEPT ![s] = "wait1"]
    /\ sent' = [sent EXCEPT ![s] = @ + 1]
    /\ UNCHANGED <<apiKey, call, target, apc, resps, ret, results, response, faults>>
    /\ UNCHANGED <<payload, paths, now, started, late, weather, window, worker>>

\* variant: the handler stops waiting as soon as one unit has finished and
\* reports the units finished by then
GatherDone_FirstCompleted ==
    /\ call = "all" /\ apc = "gather"
    /\ \E s \in Sources : pc[s] = "done"
    /\ LET done == SelectSeq([i \in 1..Len(CRYPTO_APIS) |-> ret[CRYPTO_APIS[i]]],
                             LAMBDA x : x.tuple)
           w == ResultsAfterWait(FALSE, done)
       IN /\ results' = w.results
          /\ response' = AllSourcesResponse(w)
    /\ apc' = "returned"
    /\ UNCHANGED <<apiKey, call, target, pc, resps, sent, ret, faults>>
    /\ UNCHANGED <<payload, paths, now, started, late, weather, window, worker>>

\* gather has every result before the deadline
GatherDone ==
    /\ call = "all" /\ apc = "gather"
    /\ \A s \in Sources : pc[s] = "done"
    /\ LET w == ResultsAfterWait(FALSE, [i \in 1..Len(CRYPTO_APIS) |-> ret[CRYPTO_APIS[i]]])
       IN /\ results' = w.results
          /\ response' = AllSourcesResponse(w)
    /\ apc' = "returned"
    /\ UNCHANGED <<apiKey, call, target, pc, resps, sent, ret, faults>>
    /\ UNCHANGED <<payload, paths, now, started, late, weather, window, worker>>

\* variant: gather is awaited without wait_for, no timer ever fires
Deadline_NoTimer ==
    /\ FALSE
    /\ UNCHANGED vars

\* wait_for(timeout=60) expires while a unit is pending: gather and the
\* pending units are cancelled, what the finished units returned is dropped
Deadline ==
    /\ call = "all" /\ apc = "gather"
    /\ \E s \in Sources : pc[s] # "done"
    /\ pc' = [s \in Sources |-> IF pc[s] = "done" THEN "done" ELSE "cancelled"]
    /\ LET w == ResultsAfterWait(TRUE, <<>>)
       IN /\ results' = w.results
          /\ response' = AllSourcesResponse(w)
    /\ apc' = "returned"
    /\ UNCHANGED <<apiKey, call, target, resps, sent, ret, faults>>
    /\ UNCHANGED <<payload, paths, now, started, late, weather, window, worker>>

(***************************************************************************)
(* GET /bitcoin/source/{source}                                            *)
(***************************************************************************)
\* variant: CRYPTO_APIS[source] is read without the membership test
CallSingle_NoCheck(src) ==
    /\ call = "none"
    /\ call' = "single"
    /\ target' = src
    /\ IF src \notin Sources
       THEN /\ response' = HTTPException(500, "KeyError")
            /\ apc' = "returned"
            /\ UNCHANGED <<pc, sent>>
       ELSE IF src = "coinmarketcap" /\ ~apiKey
       THEN /\ response' = HTTPException(500, "CoinMarketCap requires API key")
            /\ apc' = "returned"
            /\ UNCHANGED <<pc, sent>>
       ELSE /\ pc' = [pc EXCEPT ![src] = "wait0"]
            /\ sent' = [sent EXCEPT ![src] = 1]
            /\ apc' = "single"
            /\ UNCHANGED response
    /\ UNCHANGED <<apiKey, resps, ret, results, faults>>
    /\ UNCHANGED <<payload, paths, now, started, late, weather, window, worker>>

CallSingle(src) ==
    /\ call = "none"
    /\ call' = "single"
    /\ target' = src
    /\ IF src \notin Sources
       THEN /\ response' = HTTPException(400, InvalidSourceDetail)
            /\ apc' = "returned"
            /\ UNCHANGED <<pc, sent>>
       ELSE IF src = "coinmarketcap" /\ ~apiKey
       THEN /\ response' = HTTPException(500, "CoinMarketCap requires API key")
            /\ apc' = "returned"
            /\ UNCHANGED <<pc, sent>>
       ELSE /\ pc' = [pc EXCEPT ![src] = "wait0"]
            /\ sent' = [sent EXCEPT ![src] = 1]
            /\ apc' = "single"
            /\ UNCHANGED response
    /\ UNCHANGED <<apiKey, resps, ret, results, faults>>
    /\ UNCHANGED <<payload, paths, now, started, late, weather, window, worker>>

\* requests.get returns or raises; a retry is issued at once
SingleRespond(r) ==
    /\ call = "single" /\ apc = "single"
    /\ pc[target] \in {"wait0", "wait1"}
    /\ FaultAllowed(r)
    /\ LET attempt == IF pc[target] = "wait0" THEN 0 ELSE 1
           step == SingleSourceStep(target, attempt, r)
       IN IF step.next = "return"
          THEN /\ pc' = [pc EXCEPT ![target] = "done"]
               /\ response' = step.response
               /\ apc' = "returned"
               /\ UNCHANGED sent
          ELSE /\ pc' = [pc EXCEPT ![target] = "wait1"]
               /\ sent' = [sent EXCEPT ![target] = @ + 1]
               /\ UNCHANGED <<response, apc>>
    /\ resps' = [resps EXCEPT ![target] = Append(@, r)]
    /\ faults' = IF IsFault(r) THEN faults + 1 ELSE faults
    /\ UNCHANGED <<apiKey, call, target, ret, results>>
    /\ UNCHANGED <<payload, paths, now, started, late, weather, window, worker>>

\* the response has been sent; the server takes the next request
NextRequest ==
    /\ apc = "returned"
    /\ call' = "none"
    /\ target' = ""
    /\ apc' = "idle"
    /\ pc' = [s \in Sources |-> "idle"]
    /\ resps' = [s \in Sources |-> <<>>]
    /\ sent' = [s \in Sources |-> 0]
    /\ ret' = [s \in Sources |-> NoReturn]
    /\ results' = EmptyDict
    /\ response' = NoResponse
    /\ faults' = 0
    /\ now' = 0
    /\ started' = [s \in Sources |-> 0]
    /\ late' = FALSE
    /\ UNCHANGED apiKey
    /\ UNCHANGED <<payload, paths, weather, window, worker>>

Next ==
    \/ CallAll
    \/ \E s \in Sources, r \in UpstreamResponses : Respond(s, r)
    \/ \E s \in Sources : Wake(s)
    \/ GatherDone
    \/ Deadline
    \/ \E src \in Sources \cup {UnknownSource} : CallSingle(src)
    \/ \E r \in UpstreamResponses : SingleRespond(r)
    \/ NextRequest

Spec == Init /\ [][Next]_vars

\* the event loop runs the timer callback of wait_for and the completion
\* callback of gather once they are due
SpecLive == Spec /\ WF_vars(Deadline) /\ WF_vars(GatherDone)

(***************************************************************************)
(* GET /bitcoin/all with time.  now counts the seconds since the handler   *)
(* started wait_for, started[s] is the second at which the unit of s began *)
(* its attempt in flight or its backoff, late records that some attempt    *)
(* lasted longer than the timeout configured for its source.               *)
(***************************************************************************)
\* variant: every source is configured with a timeout of 30 seconds
TimeoutOf_Thirty ==
    [s \in Sources |-> 30]

\* CRYPTO_APIS[source]["timeout"]
TimeoutOf ==
    [s \in Sources |-> IF s = "binance" THEN 5 ELSE 8]

\* asyncio.sleep(1)
Backoff == 1

\* asyncio.wait_for(..., timeout=60)
GlobalTimeout == 60

Waiting(s) == pc[s] \in {"wait0", "wait1"}

\* the answers that matter for the timing: a good 200, a status that is
\* retried, and the timeout of the client
TimedAnswers == {r \in UpstreamResponses : r.kind \in {"ok", "timeout"} \/ r.status = 503}

\* the answer r to the attempt of s in flight arrives now, before the
\* deadline; a timeout is raised when the configured timeout has passed
TimedRespond(s, r) ==
    /\ call = "all" /\ apc = "gather"
    /\ Waiting(s)
    /\ FaultAllowed(r)
    /\ now < GlobalTimeout
    /\ r.kind = "timeout" => now = started[s] + TimeoutOf[s]
    /\ LET attempt == IF pc[s] = "wait0" THEN 0 ELSE 1
           step == FetchSourceStep(s, attempt, r)
       IN /\ pc' = [pc EXCEPT ![s] = IF step.next = "return" THEN "done" ELSE "sleep"]
          /\ ret' = [ret EXCEPT ![s] = IF step.next = "return" THEN Tuple(s, step.data) ELSE @]
          /\ started' = [started EXCEPT ![s] = IF step.next = "return" THEN @ ELSE now]
    /\ faults' = IF IsFault(r) THEN faults + 1 ELSE faults
    /\ UNCHANGED <<apiKey, call, target, apc, resps, sent, results, response>>
    /\ UNCHANGED <<payload, paths, now, late, weather, window, worker>>

\* the timer of asyncio.sleep(1) is due: the second attempt is sent
TimedWake(s) ==
    /\ call = "all" /\ apc = "gather"
    /\ pc[s] = "sleep"
    /\ sent[s] < RetryRange
    /\ now >= started[s] + Backoff
    /\ pc' = [pc EXCEPT ![s] = "wait1"]
    /\ sent' = [sent EXCEPT ![s] = @ + 1]
    /\ started' = [started EXCEPT ![s] = now]
    /\ UNCHANGED <<apiKey, call, target, apc, resps, ret, results, response, faults>>
    /\ UNCHANGED <<payload, paths, now, late, weather, window, worker>>

\* one second passes while the handler waits; no timer that is due is
\* passed over and no attempt is at the end of its timeout
Tick ==
    /\ call = "all" /\ apc = "gather"
    /\ \E s \in Sources : pc[s] # "done"
    /\ now < GlobalTimeout
    /\ \A s \in Sources : pc[s] = "sleep" => now < started[s] + Backoff
    /\ \A s \in Sources : Waiting(s) => now < started[s] + TimeoutOf[s]
    /\ now' = now + 1
    /\ UNCHANGED <<apiKey, call, target, apc, pc, resps, sent, ret, results, response,
                   faults>>
    /\ UNCHANGED <<payload, paths, started, late, weather, window, worker>>

\* the attempts in flight neither answer nor raise when their timeout has
\* passed (the timeout of httpx bounds each phase of the exchange, not the
\* whole of it): time runs on to the global deadline
Stall ==
    /\ call = "all" /\ apc = "gather"
    /\ now < GlobalTimeout
    /\ \A s \in Sources : pc[s] # "sleep"
    /\ \E s \in Sources : Waiting(s) /\ now = started[s] + TimeoutOf[s]
    /\ now' = GlobalTimeout
    /\ late' = TRUE
    /\ UNCHANGED <<apiKey, call, target, apc, pc, resps, sent, ret, results, response,
                   faults>>
    /\ UNCHANGED <<payload, paths, started, weather, window, worker>>

\* the timer of wait_for is due
TimedDeadline ==
    /\ now >= GlobalTimeout
    /\ Deadline

NextTimed ==
    \/ CallAll
    \/ \E s \in Sources, r \in TimedAnswers : TimedRespond(s, r)
    \/ \E s \in Sources : TimedWake(s)
    \/ Tick
    \/ Stall
    \/ GatherDone
    \/ TimedDeadline
    \/ NextRequest

SpecTimed == Init /\ [][NextTimed]_vars

(***************************************************************************)
(* Normalisation of one decoded payload, as /bitcoin/all (fetch_source ->  *)
(* parse_crypto_response) and as the single-source handler do it           *)
(***************************************************************************)
InitParse ==
    /\ apiKey = TRUE
    /\ call = "parse"
    /\ target \in Sources
    /\ payload \in PayloadsOf(target)
    /\ paths = NoPaths
    /\ now = 0
    /\ started = [s \in Sources |-> 0]
    /\ late = FALSE
    /\ weather = NoWeather
    /\ window = NewWindow
    /\ worker = NewWorker
    /\ apc = "idle"
    /\ pc = [s \in Sources |-> "idle"]
    /\ resps = [s \in Sources |-> <<>>]
    /\ sent = [s \in Sources |-> 0]
    /\ ret = [s \in Sources |-> NoReturn]
    /\ results = EmptyDict
    /\ response = NoResponse
    /\ faults = 0

Normalize ==
    /\ call = "parse" /\ apc = "idle"
    /\ paths' = [all |-> parse_crypto_response(target, payload),
                 single |-> SingleNormalize(target, payload)]
    /\ apc' = "returned"
    /\ UNCHANGED <<apiKey, call, target, pc, resps, sent, ret, results, response, faults,
                   payload>>
    /\ UNCHANGED <<now, started, late, weather, window, worker>>

NextParse == Normalize

SpecParse == InitParse /\ [][NextParse]_vars

(***************************************************************************)
(* One unit of work run to its end on the same upstream answers by both    *)
(* paths: resps[target] holds the answers to the first and second attempt  *)
(***************************************************************************)
\* how the report counts an outcome, and its fields without the two the
\* single-source handler adds to every result
Outcome(data, attempts) ==
    [class |-> IF "error" \in data.keys THEN "failure" ELSE "success",
     attempts |-> attempts,
     fields |-> data.keys \ {"source", "timestamp"}]

\* fetch_source(source, config) against the scripted answers
RunFetchSource(source, key, script) ==
    IF SkipsForMissingKey(source, key)
    THEN Outcome(ErrDict("API key required but not configured"), 0)
    ELSE LET first == FetchSourceStep(source, 0, script[1])
             second == FetchSourceStep(source, 1, script[2])
         IN IF first.next = "return" THEN Outcome(first.data, 1)
            ELSE Outcome(second.data, 2)

\* get_bitcoin_from_source(source) against the scripted answers
RunSingleSource(source, key, script) ==
    IF source = "coinmarketcap" /\ ~key
    THEN Outcome(ErrDict("CoinMarketCap requires API key"), 0)
    ELSE LET first == SingleSourceStep(source, 0, script[1])
             second == SingleSourceStep(source, 1, script[2])
             last == IF first.next = "return" THEN first.response ELSE second.response
             attempts == IF first.next = "return" THEN 1 ELSE 2
         IN IF last.kind = "json" THEN Outcome(last.content, attempts)
            ELSE Outcome(ErrDict("HTTPException"), attempts)

InitUnit ==
    /\ apiKey \in BOOLEAN
    /\ call = "unit"
    /\ target \in Sources
    /\ \E script \in [1..RetryRange -> UpstreamResponses] :
           resps = [s \in Sources |-> IF s = target THEN script ELSE <<>>]
    /\ payload = NoPayload
    /\ paths = NoPaths
    /\ now = 0
    /\ started = [s \in Sources |-> 0]
    /\ late = FALSE
    /\ weather = NoWeather
    /\ window = NewWindow
    /\ worker = NewWorker
    /\ apc = "idle"
    /\ pc = [s \in Sources |-> "idle"]
    /\ sent = [s \in Sources |-> 0]
    /\ ret = [s \in Sources |-> NoReturn]
    /\ results = EmptyDict
    /\ response = NoResponse
    /\ faults = 0

RunUnit ==
    /\ call = "unit" /\ apc = "idle"
    /\ paths' = [all |-> RunFetchSource(target, apiKey, resps[target]),
                 single |-> RunSingleSource(target, apiKey, resps[target])]
    /\ apc' = "returned"
    /\ UNCHANGED <<apiKey, call, target, pc, resps, sent, ret, results, response, faults,
                   payload>>
    /\ UNCHANGED <<now, started, late, weather, window, worker>>

NextUnit == RunUnit

SpecUnit == InitUnit /\ [][NextUnit]_vars

(***************************************************************************)
(* GET /weather/{city}: get_weather                                         *)
(***************************************************************************)
Cities == {"London", "Tehran", "Atlantis"}

Units == {"metric", "imperial"}

WeatherStatuses == {400, 401, 404, 429, 500, 503}

\* what requests.get gives the handler: a 200 with the expected body, a 200
\* with another body, a status of WeatherStatuses, a timeout, no connection
WeatherAnswers ==
    {[kind |-> "ok", status |-> 200], [kind |-> "badshape", status |-> 200],
     [kind |-> "timeout", status |-> 0], [kind |-> "neterr", status |-> 0]}
    \cup {[kind |-> "http", status |-> c] : c \in WeatherStatuses}

\* the body of the try block: the value it returns or the exception it
\* raises, with the class of the exception
WeatherTry(city, units, r) ==
    IF r.kind \in {"timeout", "neterr"}
    THEN [raises |-> "RequestException", status |-> 0, detail |-> r.kind]
    ELSE IF r.status = 401
    THEN [raises |-> "HTTPException", status |-> 401,
          detail |-> "API key invalid or not yet activated"]
    ELSE IF r.status >= 400
    THEN [raises |-> "HTTPError", status |-> r.status, detail |-> "HTTPError"]
    ELSE IF r.kind = "badshape"
    THEN [raises |-> "KeyError", status |-> 0, detail |-> "KeyError"]
    ELSE [raises |-> "", status |-> 200,
          detail |-> IF units = "metric" THEN "C" ELSE "F"]

\* the except clauses of get_weather: requests.exceptions.HTTPError, then
\* Exception, which is a base class of fastapi's HTTPException too
WeatherExcept(city, t) ==
    IF t.raises = "HTTPError"
    THEN IF t.status = 404
         THEN HTTPException(404, "City not found: " \o city)
         ELSE HTTPException(t.status, t.detail)
    ELSE HTTPException(500, "Error: " \o t.detail)

\* get_weather once requests.get has returned or raised
WeatherOutcome(city, units, r) ==
    LET t == WeatherTry(city, units, r)
    IN IF t.raises = ""
       THEN JSONResponse([source |-> "OpenWeatherMap", unit |-> t.detail])
       ELSE WeatherExcept(city, t)

InitWeather ==
    /\ apiKey \in BOOLEAN
    /\ \E key \in BOOLEAN : weather = [NoWeather EXCEPT !.key = key]
    /\ call = "none"
    /\ target = ""
    /\ apc = "idle"
    /\ pc = [s \in Sources |-> "idle"]
    /\ resps = [s \in Sources |-> <<>>]
    /\ sent = [s \in Sources |-> 0]
    /\ ret = [s \in Sources |-> NoReturn]
    /\ results = EmptyDict
    /\ response = NoResponse
    /\ faults = 0
    /\ payload = NoPayload
    /\ paths = NoPaths
    /\ now = 0
    /\ started = [s \in Sources |-> 0]
    /\ late = FALSE
    /\ window = NewWindow
    /\ worker = NewWorker

WeatherCall(city, units) ==
    /\ call = "none"
    /\ call' = "weather"
    /\ IF ~weather.key
       THEN /\ response' = HTTPException(500, "OpenWeather API key not configured")
            /\ apc' = "returned"
       ELSE /\ apc' = "request"
            /\ UNCHANGED response
    /\ weather' = [weather EXCEPT !.city = city, !.units = units, !.answer = NoAnswer]
    /\ UNCHANGED <<apiKey, target, pc, resps, sent, ret, results, faults>>
    /\ UNCHANGED <<payload, paths, now, started, late, window, worker>>

\* requests.get(OPENWEATHER_BASE_URL, ...) returns or raises
WeatherRespond(r) ==
    /\ call = "weather" /\ apc = "request"
    /\ weather' = [weather EXCEPT !.answer = r]
    /\ response' = WeatherOutcome(weather.city, weather.units, r)
    /\ apc' = "returned"
    /\ UNCHANGED <<apiKey, call, target, pc, resps, sent, ret, results, faults>>
    /\ UNCHANGED <<payload, paths, now, started, late, window, worker>>

NextWeather ==
    \/ \E city \in Cities, units \in Units : WeatherCall(city, units)
    \/ \E r \in WeatherAnswers : WeatherRespond(r)
    \/ NextRequest

SpecWeather == InitWeather /\ [][NextWeather]_vars

(***************************************************************************)
(* gui_app.py: MainWindow and its single ApiWorker.  The slots of the      *)
(* window run in the GUI thread one at a time; run() of the worker runs in *)
(* its own thread and its signals are queued to the GUI thread.            *)
(***************************************************************************)
\* signals emitted by the worker and not yet delivered
MaxQueued == 2

CallTypes == {"weather", "bitcoin_all", "bitcoin_single"}

ComboTexts == {"All Sources", "Coinbase"}

\* the call type of the endpoint a slot hands to the worker
CallTypeOf(text) == IF text = "All Sources" THEN "bitcoin_all" ELSE "bitcoin_single"

\* QThread.start(): starts the thread, does nothing while it is running
Start(w) == IF w.thread = "finished" THEN [w EXCEPT !.thread = "started"] ELSE w

\* self.current_call = ...; set_endpoint(endpoint); start()
Request(type) ==
    /\ window' = [window EXCEPT !.current_call = type]
    /\ worker' = Start([worker EXCEPT !.endpoint = type])

Others ==
    <<apiKey, call, target, apc, pc, resps, sent, ret, results, response, faults,
      payload, paths, now, started, late, weather>>

\* MainWindow.get_weather with the text of cityInput
GetWeather(city) ==
    /\ IF city = "" THEN UNCHANGED <<window, worker>> ELSE Request("weather")
    /\ UNCHANGED Others

\* MainWindow.get_bitcoin_price, from the button
GetBitcoinPrice ==
    /\ Request(CallTypeOf(window.sourceCombo))
    /\ UNCHANGED Others

\* refresh_timer.timeout -> get_bitcoin_price
RefreshTimeout ==
    /\ window.refresh_timer
    /\ Request(CallTypeOf(window.sourceCombo))
    /\ UNCHANGED Others

\* MainWindow.toggle_auto_refresh
ToggleAutoRefresh(checked) ==
    /\ window' = [window EXCEPT !.refresh_timer = checked]
    /\ UNCHANGED worker
    /\ UNCHANGED Others

\* the user picks an entry of sourceCombo
SelectSource(text) ==
    /\ window' = [window EXCEPT !.sourceCombo = text]
    /\ UNCHANGED worker
    /\ UNCHANGED Others

\* ApiWorker.run begins: the request is made for the endpoint set by now
WorkerRun ==
    /\ worker.thread = "started"
    /\ worker' = [worker EXCEPT !.thread = "running", !.fetching = worker.endpoint]
    /\ UNCHANGED window
    /\ UNCHANGED Others

\* ApiWorker.run ends: data_received or error_occurred is emitted
WorkerDone(signal) ==
    /\ worker.thread = "running"
    /\ Len(window.queue) < MaxQueued
    /\ window' = [window EXCEPT !.queue = Append(@, [signal |-> signal, of |-> worker.fetching])]
    /\ worker' = [worker EXCEPT !.thread = "finished", !.fetching = ""]
    /\ UNCHANGED Others

\* handle_api_response: the display routine is picked by current_call
Display(current_call, data) ==
    IF current_call \in CallTypes
    THEN [routine |-> current_call, data |-> data]
    ELSE NoDisplay

\* the event loop delivers the oldest queued signal to its slot
Deliver ==
    /\ Len(window.queue) > 0
    /\ LET head == Head(window.queue)
       IN window' = [window EXCEPT
                        !.queue = Tail(@),
                        !.shown = IF head.signal = "data_received"
                                  THEN Display(window.current_call, head.of)
                                  ELSE @]
    /\ UNCHANGED worker
    /\ UNCHANGED Others

NextGui ==
    \/ \E city \in {"", "London"} : GetWeather(city)
    \/ GetBitcoinPrice
    \/ RefreshTimeout
    \/ \E checked \in BOOLEAN : ToggleAutoRefresh(checked)
    \/ \E text \in ComboTexts : SelectSource(text)
    \/ WorkerRun
    \/ \E signal \in {"data_received", "error_occurred"} : WorkerDone(signal)
    \/ Deliver

SpecGui == Init /\ [][NextGui]_vars

(***************************************************************************)
(* Properties                                                              *)
(***************************************************************************)
AllReturned == call = "all" /\ apc = "returned"

TimedOut == \E s \in Sources : pc[s] = "cancelled"

Prices == response.bitcoin_prices

IsTransient(r) == r.kind \in {"timeout", "neterr", "http"}

\* the entry of source s in the report is what its unit returned
ReportedAsReturned(s) == s \in DOMAIN Prices /\ Prices[s] = ret[s].data

\* the unit of source s (either path) ended with a price record
UnitSucceeded(s) ==
    IF call = "all"
    THEN ret[s].tuple /\ "usd" \in ret[s].data.keys
    ELSE response.kind = "json" /\ "usd" \in response.content.keys

\* C1: every report of /bitcoin/all has exactly one entry per identifier of
\* CRYPTO_APIS, whatever the sources did and whether or not the deadline fired.
C1_OneEntryPerSource ==
    AllReturned => (response.kind = "report" /\ DOMAIN Prices = Sources)

\* C2: in every report successful_sources + failed_sources is the number of
\* registered sources.
C2_CountsSumToRegistry ==
    AllReturned =>
        response.successful_sources + response.failed_sources = Len(CRYPTO_APIS)

\* C3: when the global deadline expires, every unfinished source is reported
\* as a Timeout failure under its own identifier and the outcomes of the
\* finished sources are kept.
C3_DeadlineKeepsFinished ==
    (AllReturned /\ TimedOut) =>
        \A s \in Sources :
            /\ pc[s] = "cancelled" =>
                   (s \in DOMAIN Prices /\ Prices[s] = ErrDict("Timeout"))
            /\ pc[s] = "done" => ReportedAsReturned(s)

\* C4: the reported outcome of a source is the outcome of its own unit, no
\* matter how the other sources behaved (failed, raised, or never answered).
C4_OutcomeIndependent ==
    AllReturned =>
        \A b \in Sources : ret[b].tuple => ReportedAsReturned(b)

C6_EventuallyReturns == (call = "all" /\ apc = "gather") ~> (apc = "returned")

\* C6 witness: the call returned although a source never answered its request.
C6_Witness ==
    /\ AllReturned
    /\ \E s \in Sources : sent[s] = 1 /\ resps[s] = <<>> /\ pc[s] = "cancelled"

\* C7: on both paths, a unit whose first attempt timed out makes a second
\* attempt, and ends with a success when that attempt is answered well.
C7_RetryMasksTimeout ==
    \A s \in Sources :
        (pc[s] = "done" /\ Len(resps[s]) >= 1 /\ resps[s][1].kind = "timeout") =>
            /\ Len(resps[s]) = 2
            /\ resps[s][2].kind = "ok" => UnitSucceeded(s)

\* C8: when both attempts of a source fail, the reported failure is the one
\* of the second attempt, and in /bitcoin/all the outcomes of the other
\* sources are reported unchanged.
C8_RetryFailureReported ==
    \A s \in Sources :
        (apc = "returned" /\ pc[s] = "done" /\ Len(resps[s]) = 2
             /\ IsTransient(resps[s][1]) /\ IsTransient(resps[s][2])) =>
            LET r2 == resps[s][2]
            IN IF call = "all"
               THEN /\ s \in DOMAIN Prices
                    /\ Prices[s] = ErrDict(CASE r2.kind = "http" -> "HTTP " \o ToString(r2.status)
                                             [] r2.kind = "timeout" -> "Timeout"
                                             [] OTHER -> ExcText(r2))
                    /\ \A t \in Sources \ {s} : ret[t].tuple => ReportedAsReturned(t)
               ELSE /\ response.kind = "exception"
                    /\ response.status = (IF r2.kind = "timeout" THEN 504 ELSE 503)

\* C9: a fetch issues at most two requests, the second only after the first
\* ended in a transient failure, and a good answer ends the fetch.
C9_AtMostTwoAttempts ==
    \A s \in Sources :
        /\ sent[s] <= 2
        /\ sent[s] = 2 => (Len(resps[s]) >= 1 /\ IsTransient(resps[s][1]))
        /\ \A i \in 1..Len(resps[s]) :
               resps[s][i].kind = "ok" =>
                   (i = Len(resps[s]) /\ sent[s] = i /\ pc[s] = "done")

\* C9 witness: a second request was issued after a transient failure and was
\* answered well.
C9_Witness ==
    \E s \in Sources :
        /\ sent[s] = 2 /\ Len(resps[s]) = 2 /\ pc[s] = "done"
        /\ IsTransient(resps[s][1]) /\ resps[s][2].kind = "ok"

\* C10: on both paths the second request of a fetch is issued only out of
\* the backoff wait, never straight after the failed first attempt.
C10_BackoffBeforeRetry ==
    [][\A s \in Sources : (sent[s] = 1 /\ sent'[s] = 2) => pc[s] = "sleep"]_vars

\* C11: without a CoinMarketCap key no request is ever issued for
\* coinmarketcap, the single-source query answers with the configuration
\* failure, and the /bitcoin/all report carries the configuration failure
\* under coinmarketcap while every other source has been requested.
C11_MissingKeyReported ==
    ~apiKey =>
        /\ sent["coinmarketcap"] = 0
        /\ (call = "single" /\ target = "coinmarketcap") =>
               /\ apc = "returned"
               /\ response.kind = "exception"
               /\ response.detail = "CoinMarketCap requires API key"
        /\ AllReturned =>
               /\ "coinmarketcap" \in DOMAIN Prices
               /\ Prices["coinmarketcap"] = ErrDict("API key required but not configured")
               /\ \A s \in Sources \ {"coinmarketcap"} : sent[s] >= 1

\* C12: a single-source query for an identifier outside CRYPTO_APIS is
\* rejected with status 400 and the list of known identifiers, and no request
\* has been issued for any source.
C12_UnknownSourceRejected ==
    (call = "single" /\ target \notin Sources) =>
        /\ apc = "returned"
        /\ response.kind = "exception" /\ response.status = 400
        /\ response.detail.sources = CRYPTO_APIS
        /\ \A s \in Sources : sent[s] = 0 /\ pc[s] = "idle"

\* C12 witness: the query for an unregistered identifier has been answered.
C12_Witness ==
    /\ call = "single" /\ target = UnknownSource
    /\ apc = "returned" /\ response.status = 400

\* C14: in every /bitcoin/all response each key of bitcoin_prices is a
\* registered identifier and each value is a mapping with a usd price or an
\* error field.
C14_ReportShape ==
    AllReturned =>
        \A k \in DOMAIN Prices :
            /\ k \in Sources
            /\ Prices[k].type = "dict"
            /\ "usd" \in Prices[k].keys \/ "error" \in Prices[k].keys

\* the failure kind a cause should be reported as
CauseKind(r) ==
    CASE r.kind = "timeout" -> "Timeout"
      [] r.kind = "neterr" -> "NetworkError"
      [] r.kind = "http" -> "HTTPError"
      [] OTHER -> "None"

\* the failure kind the outcome of source s shows to the caller
ReportedKind(s) ==
    IF call = "all"
    THEN LET text == ret[s].data.text
         IN CASE text = "Timeout" -> "Timeout"
              [] text = "ConnectError" -> "NetworkError"
              [] text \in {"HTTP " \o ToString(c) : c \in ErrorStatuses} -> "HTTPError"
              [] text = "API key required but not configured" -> "ConfigurationError"
              [] OTHER -> "Other"
    ELSE CASE response.status = 504 -> "Timeout"
           [] response.status = 503 -> "NetworkError"
           [] response.status = 500 /\ response.detail = "CoinMarketCap requires API key"
                  -> "ConfigurationError"
           [] OTHER -> "Other"

\* C20: on both paths the failure kind shown for a source is the kind of the
\* cause of its final attempt (Timeout, NetworkError, HTTPError with the
\* upstream status), and a missing credential is shown as ConfigurationError.
C20_FailureKindMatchesCause ==
    \A s \in Sources :
        /\ (pc[s] = "done" /\ resps[s] # <<>> /\ IsTransient(resps[s][Len(resps[s])])
              /\ (call = "single" => apc = "returned")) =>
               LET last == resps[s][Len(resps[s])]
               IN /\ ReportedKind(s) = CauseKind(last)
                  /\ (call = "all" /\ last.kind = "http") =>
                         ret[s].data.text = "HTTP " \o ToString(last.status)
        /\ (~apiKey /\ s = "coinmarketcap" /\ apc = "returned"
              /\ (call = "all" \/ (call = "single" /\ target = s))) =>
               ReportedKind(s) = "ConfigurationError"

(***************************************************************************)
(* Properties of the normalisation                                         *)
(***************************************************************************)
UnitRun == call = "unit" /\ apc = "returned"

Parsed == call = "parse" /\ apc = "returned"

NobitexParsed == Parsed /\ target = "nobitex"

\* the payload is an object whose status member is the string "ok"
HasStatusOk(p) ==
    /\ p.t = "obj" /\ HasKey(p, "status")
    /\ Member(p, "status").t = "str" /\ Member(p, "status").s = "ok"

IsNumeric(v) == v.t = "num" \/ (v.t = "str" /\ v.s = "#")

\* a list of [price, quantity] levels
IsLevels(v) ==
    /\ v.t = "list"
    /\ \A i \in 1..Len(v.items) :
           /\ v.items[i].t = "list" /\ Len(v.items[i].items) = 2
           /\ \A j \in 1..2 : IsNumeric(v.items[i].items[j])

\* the levels under key k, none when the key is absent
LevelsOf(p, k) == IF HasKey(p, k) THEN Member(p, k).items ELSE <<>>

\* doubled price of the first level, 0 for no level
FirstPrice2(levels) == IF Len(levels) = 0 THEN 0 ELSE levels[1].items[1].n2

\* an order book with status ok whose members have the documented shape
GoodBook(p) ==
    /\ HasStatusOk(p)
    /\ HasKey(p, "lastTradePrice") /\ IsNumeric(Member(p, "lastTradePrice"))
    /\ HasKey(p, "bids") => IsLevels(Member(p, "bids"))
    /\ HasKey(p, "asks") => IsLevels(Member(p, "asks"))

\* the record d has the order-book prices the payload p calls for
BookPricesRight(d, p) ==
    LET bid2 == FirstPrice2(LevelsOf(p, "bids"))
        ask2 == FirstPrice2(LevelsOf(p, "asks"))
    IN /\ {"usd", "best_bid", "best_ask"} \subseteq d.keys
       /\ Val(d, "best_bid").n2 = bid2
       /\ Val(d, "best_ask").n2 = ask2
       /\ (bid2 # 0 /\ ask2 # 0) => 2 * Val(d, "usd").n2 = bid2 + ask2
       /\ (bid2 = 0 \/ ask2 = 0) => Val(d, "usd").n2 = Member(p, "lastTradePrice").n2

\* the record d has the spread the payload p calls for
SpreadRight(d, p) ==
    LET bid2 == FirstPrice2(LevelsOf(p, "bids"))
        ask2 == FirstPrice2(LevelsOf(p, "asks"))
    IN /\ "spread" \in d.keys
       /\ Val(d, "spread").n2 = (IF bid2 # 0 /\ ask2 # 0 THEN ask2 - bid2 ELSE 0)

\* C13: for the same source, credential state and upstream answers the
\* single-source query and the unit of /bitcoin/all end with the same
\* classification, the same number of attempts and, on success, the same
\* canonical fields.
C13_SingleIsTheUnit ==
    UnitRun =>
        /\ paths.single.class = paths.all.class
        /\ paths.single.attempts = paths.all.attempts
        /\ paths.all.class = "success" => paths.single.fields = paths.all.fields

\* C15: for an order book with status ok both normalisations take best_bid
\* and best_ask from the first entry of bids and asks (0 for an empty list),
\* and usd is their midpoint when both are nonzero and lastTradePrice
\* otherwise.
C15_OrderBookPrices ==
    (NobitexParsed /\ GoodBook(payload)) =>
        /\ BookPricesRight(paths.all, payload)
        /\ paths.single.kind = "json"
        /\ BookPricesRight(paths.single.content, payload)

\* C15 witness: a book with two levels on each side has been normalised to
\* the midpoint of the two first prices.
C15_Witness ==
    /\ NobitexParsed /\ GoodBook(payload)
    /\ Len(LevelsOf(payload, "bids")) = 2 /\ Len(LevelsOf(payload, "asks")) = 2
    /\ "usd" \in paths.all.keys
    /\ 2 * Val(paths.all, "usd").n2 = 198 + 200

\* C16: every order-book record, from the single-source query and from
\* parse_crypto_response alike, carries spread = best_ask - best_bid when
\* both are nonzero and 0 otherwise.
C16_SpreadInEveryRecord ==
    (NobitexParsed /\ GoodBook(payload)) =>
        /\ paths.single.kind = "json" /\ SpreadRight(paths.single.content, payload)
        /\ SpreadRight(paths.all, payload)

\* C17: an order-book payload whose status is missing or not "ok" yields an
\* error and never a price record on both paths, whatever else it holds.
C17_StatusNotOkIsError ==
    (NobitexParsed /\ ~HasStatusOk(payload)) =>
        /\ "error" \in paths.all.keys /\ "usd" \notin paths.all.keys
        /\ paths.single.kind = "exception"

\* C17 witness: a payload with status "failed" and an otherwise complete
\* book has been normalised.
C17_Witness ==
    /\ NobitexParsed
    /\ payload.t = "obj" /\ HasKey(payload, "status") /\ Member(payload, "status").s = "failed"
    /\ HasKey(payload, "lastTradePrice")
    /\ Len(LevelsOf(payload, "bids")) > 0 /\ Len(LevelsOf(payload, "asks")) > 0
    /\ paths.all.text = "Invalid Nobitex response"

\* the payload has the shape the normaliser of the source expects
HasNumber(p, path) ==
    LET RECURSIVE At(_, _)
        At(v, i) == IF i > Len(path) THEN IsNumeric(v)
                    ELSE v.t = "obj" /\ HasKey(v, path[i]) /\ At(Member(v, path[i]), i + 1)
    IN At(p, 1)

WellFormed(source, p) ==
    CASE source = "coinbase" ->
             \A c \in {"USD", "EUR", "GBP"} : HasNumber(p, <<"data", "rates", c>>)
      [] source = "blockchain" ->
             \A c \in {"USD", "EUR", "GBP"} : HasNumber(p, <<c, "last">>)
      [] source = "coinmarketcap" ->
             \A f \in {"price", "percent_change_24h", "market_cap", "volume_24h"} :
                 HasNumber(p, <<"data", "BTC", "quote", "USD", f>>)
      [] source = "binance" -> HasNumber(p, <<"price">>)
      [] source = "kraken" ->
             /\ p.t = "obj" /\ HasKey(p, "result") /\ Member(p, "result").t = "obj"
             /\ HasKey(Member(p, "result"), "XXBTZUSD")
             /\ Member(Member(p, "result"), "XXBTZUSD").t = "obj"
             /\ HasKey(Member(Member(p, "result"), "XXBTZUSD"), "c")
             /\ LET c == Member(Member(Member(p, "result"), "XXBTZUSD"), "c")
                IN c.t = "list" /\ Len(c.items) > 0 /\ IsNumeric(c.items[1])
      [] source = "nobitex" ->
             GoodBook(p) /\ HasKey(p, "bids") /\ HasKey(p, "asks")
      [] OTHER -> FALSE

\* C18: parse_crypto_response returns a dict for every source and payload,
\* and a payload that does not have the expected shape gives a dict with an
\* error field.
C18_MismatchIsError ==
    Parsed =>
        /\ paths.all.type = "dict"
        /\ ~WellFormed(target, payload) => "error" \in paths.all.keys

\* a kraken payload with the result envelope and the XXBTZUSD pair in it
HasPair(p) ==
    /\ p.t = "obj" /\ HasKey(p, "result")
    /\ Member(p, "result").t = "obj" /\ HasKey(Member(p, "result"), "XXBTZUSD")

\* C19: a kraken payload without the result envelope or without the
\* XXBTZUSD pair yields an error, never a record with a usd price.
C19_MissingPairIsError ==
    (Parsed /\ target = "kraken" /\ ~HasPair(payload)) =>
        /\ "error" \in paths.all.keys /\ "usd" \notin paths.all.keys
        /\ paths.single.kind = "json"
        /\ "error" \in paths.single.content.keys /\ "usd" \notin paths.single.content.keys

\* C19 witness: a result envelope that holds another pair only has been
\* normalised.
C19_Witness ==
    /\ Parsed /\ target = "kraken"
    /\ payload.t = "obj" /\ HasKey(payload, "result")
    /\ Member(payload, "result").t = "obj"
    /\ HasKey(Member(payload, "result"), "XETHZUSD")
    /\ paths.all.text = "Unexpected Kraken response format"

(***************************************************************************)
(* Properties of the scheduling                                            *)
(***************************************************************************)
\* C21: nobitex is fetched with a single attempt on every path: no handler
\* issues a second request to it, a failed first attempt is not retried.
C21_NobitexSingleAttempt == sent["nobitex"] <= 1

\* the report as a function of the per-source outcomes alone
ReportOfOutcomes ==
    IF \A s \in Sources : ret[s].tuple
    THEN [kind |-> "report", status |-> 200,
          bitcoin_prices |-> [s \in Sources |-> ret[s].data],
          successful_sources |->
              Cardinality({s \in Sources : "error" \notin ret[s].data.keys}),
          failed_sources |->
              Cardinality({s \in Sources : "error" \in ret[s].data.keys})]
    ELSE [kind |-> "report", status |-> 200,
          bitcoin_prices |-> [k \in {"error"} |-> Str("Global timeout reached")],
          successful_sources |-> 0,
          failed_sources |-> 0]

\* C22: the report of /bitcoin/all is determined by the outcomes of the six
\* units; the order in which the units answered, slept and finished leaves
\* no trace in the per-source entries or in the two counts.
C22_ReportIgnoresOrder == AllReturned => response = ReportOfOutcomes

\* C22 witness: a report assembled after a run in which one unit needed its
\* second attempt, one failed and one succeeded at once.
C22_Witness ==
    /\ AllReturned /\ ~TimedOut
    /\ \E a, b, c \in Sources :
           /\ sent[a] = 2 /\ "usd" \in ret[a].data.keys
           /\ sent[b] = 1 /\ "error" \in ret[b].data.keys
           /\ sent[c] = 1 /\ "usd" \in ret[c].data.keys
    /\ response.successful_sources >= 2 /\ response.failed_sources >= 1

OkResponse == [kind |-> "ok", status |-> 200]

\* a unit that awaits a response can take it, a unit whose backoff is over
\* can go on, whatever the other units are doing
NoUnitWaitsForAnother ==
    (call = "all" /\ apc = "gather") =>
        \A t \in Sources :
            /\ pc[t] \in {"wait0", "wait1"} => ENABLED Respond(t, OkResponse)
            /\ pc[t] = "sleep" => ENABLED Wake(t)

\* a request is sent for a second attempt only by a unit whose first
\* attempt has ended and that is in its backoff
AttemptsInSequence ==
    call = "all" =>
        \A s \in Sources :
            (sent[s] >= 1 /\ sent'[s] > sent[s]) =>
                /\ pc[s] = "sleep"
                /\ Len(resps[s]) = sent[s]
                /\ sent'[s] = sent[s] + 1

\* C23: in /bitcoin/all the attempts of one source follow one another, and
\* a source that waits for a response or sleeps keeps no other unit from
\* progressing.
C23_SequentialAndIndependent == [][AttemptsInSequence]_vars /\ []NoUnitWaitsForAnother

\* C23 witness: one unit sleeps in its backoff, another awaits the answer
\* to its second attempt, a third has finished.
C23_Witness ==
    /\ call = "all" /\ apc = "gather"
    /\ \E a, b, c \in Sources :
           pc[a] = "sleep" /\ pc[b] = "wait1" /\ pc[c] = "done" /\ sent[c] = 1

\* the outcome d is a mapping with exactly one of the fields usd and error
OneOfUsdAndError(d) ==
    /\ d.type = "dict"
    /\ ("usd" \in d.keys) # ("error" \in d.keys)

C25_UnitsFinishInTime ==
    (call = "all" /\ ~late) =>
        /\ ~TimedOut
        /\ (\E s \in Sources : pc[s] # "done") => now <= 17
        /\ apc = "returned" => (now <= 17 /\ DOMAIN Prices = Sources)

\* C25 witness: a report is returned at second 17, after a unit spent the
\* full timeout on both attempts, with no attempt late.
C25_Witness ==
    /\ AllReturned /\ ~late /\ now = 17
    /\ \E s \in Sources : sent[s] = 2 /\ ret[s].data = ErrDict("Timeout")
    /\ DOMAIN Prices = Sources

(***************************************************************************)
(* Properties of the GUI and of the weather endpoint                       *)
(***************************************************************************)
\* C26: whatever the user, the timer and the worker do, a response is
\* rendered by the display routine of the call type of the request that
\* produced it.
C26_ResponseToItsRoutine ==
    window.shown # NoDisplay => window.shown.routine = window.shown.data

WeatherReturned == call = "weather" /\ apc = "returned"

\* C27: /weather/{city} answers an upstream 401 with status 401 and an
\* upstream 404 with status 404; the HTTPException raised in the handler
\* for the 401 is not turned into a 500.
C27_WeatherKeepsStatus ==
    WeatherReturned =>
        /\ weather.answer.status = 401 =>
               (response.kind = "exception" /\ response.status = 401)
        /\ weather.answer.status = 404 =>
               (response.kind = "exception" /\ response.status = 404)

====
